---- MODULE Spec2Model ----
(***************************************************************************)
(* Model of the array bookkeeping of pablogion97/Water2:                   *)
(*   src/clustering.py         single_chemical_clustering,                 *)
(*                             timestep_clustering, timewise_clustering,   *)
(*                             clustering, average_data                    *)
(*   src/Andrea/clustering.py  single_chemical_clustering (Andrea variant) *)
(* Every function call is one action.  The clustering backend (sklearn) is *)
(* external: its fit is a nondeterministic choice of one label per row.    *)
(* silhouette_plot (module silhouette) only reads labels and data to       *)
(* compute s_avg, which is left out.                                       *)
(* Python lists are sequences (Python index k is index k + 1 here), numpy  *)
(* arrays are records [shape, at] indexed from 0 as in the source.         *)
(***************************************************************************)
EXTENDS Integers, Sequences, FiniteSets, TLC

VARIABLES
    matrix,         \* the array handed to the function
    args,           \* the arguments of the call
    pc,             \* "idle" before the call, "done" after it
    outcome,        \* "pending" | "returned" | "none" | the exception raised
    printed,        \* the messages printed, in order
    fits,           \* the backends constructed and fit, in order
    straight_data,  \* the rows handed to the backend
    coordinates,    \* the coordinates list
    clustered_data, \* the clusterer returned by clustering (None: <<>>)
    n_clusters,     \* n_clusters as it stands after the mode branch
    cluster_sizes,  \* cluster_sizes
    labels,         \* the returned labels array
    data,           \* the selected slice; the array average_data returns
    windows         \* average_data: the slice bounds <<t1, t2>> of each output step

vars == <<matrix, args, pc, outcome, printed, fits, straight_data, coordinates,
          clustered_data, n_clusters, cluster_sizes, labels, data, windows>>

----------------------------------------------------------------------------
(* Bounds *)

\* largest grid (lat * lon cells) of an input
MaxCells == 3
\* number of timesteps of a 4-D input of the clustering functions
NT == 2
\* number of chemical channels of an input
NChem == 2
\* largest label the DBSCAN backend hands out
MaxLabel == 1
\* longest time axis handed to average_data
MaxT == 4

----------------------------------------------------------------------------
(* Values: floats are exact fractions, NaN is its own value *)

None == <<>>
Some(v) == <<v>>

NaN == [nan |-> TRUE, num |-> 0, den |-> 1]
Num(v) == [nan |-> FALSE, num |-> v, den |-> 1]
isnan(x) == x.nan

RECURSIVE Gcd(_, _)
Gcd(a, b) == IF b = 0 THEN a ELSE Gcd(b, a % b)

Abs(a) == IF a < 0 THEN -a ELSE a

\* s / n for an exact sum s and a count n; numpy gives nan for 0.0 / 0
Div(s, n) ==
    IF n = 0 THEN NaN
    ELSE LET g == Gcd(Abs(s), n)
         IN  [nan |-> FALSE, num |-> s \div g, den |-> n \div g]

\* x >= 0 on floats: False for NaN
GeZero(x) == ~x.nan /\ x.num >= 0

\* a < b on floats: False as soon as one side is NaN
Less(a, b) == ~a.nan /\ ~b.nan /\ a.num * b.den < b.num * a.den

RECURSIVE SumSeq(_)
SumSeq(s) == IF s = <<>> THEN 0 ELSE Head(s) + SumSeq(Tail(s))

RECURSIVE MaxSeq(_)
MaxSeq(s) ==
    IF Len(s) = 1 THEN s[1]
    ELSE LET m == MaxSeq(Tail(s)) IN IF s[1] >= m THEN s[1] ELSE m

\* Python's builtin min over a float sequence: keeps the first element unless
\* a later one compares smaller, so a NaN is kept only in first position
RECURSIVE PyMinFrom(_, _)
PyMinFrom(m, s) ==
    IF s = <<>> THEN m
    ELSE PyMinFrom(IF Less(Head(s), m) THEN Head(s) ELSE m, Tail(s))

PyMin(s) == PyMinFrom(Head(s), Tail(s))

----------------------------------------------------------------------------
(* Arrays *)

Range(n) == 0 .. (n - 1)

Idx2(I, J) == { <<i, j>> : i \in Range(I), j \in Range(J) }
Idx3(A, B, C) == { <<a, b, c>> : a \in Range(A), b \in Range(B), c \in Range(C) }
Idx4(T, I, J, C) ==
    { <<t, i, j, c>> : t \in Range(T), i \in Range(I), j \in Range(J), c \in Range(C) }

\* np.full(shape, np.nan) for a 2-D shape
FullNaN2(I, J) == [shape |-> <<I, J>>, at |-> [x \in Idx2(I, J) |-> NaN]]
\* np.full(n, np.nan)
FullNaN1(n) == [shape |-> <<n>>, at |-> [x \in { <<k>> : k \in Range(n) } |-> NaN]]

\* Python index normalisation: k < 0 counts from the end
Norm(k, n) == IF k < 0 THEN k + n ELSE k
\* numpy raises IndexError outside -n .. n-1
InBounds(k, n) == -n <= k /\ k < n

\* row-major order of the cells: for i in range(I): for j in range(J)
CellSeq(I, J) == [k \in 1 .. (I * J) |-> << (k - 1) \div J, (k - 1) % J >>]

\* s[1:] of a Python list
DropFirst(s) == IF s = <<>> THEN <<>> ELSE Tail(s)

RECURSIVE SelectSeqIdx(_, _, _)
\* the elements s[k] with keep[k], in order
SelectSeqIdx(s, keep, k) ==
    IF k > Len(s) THEN <<>>
    ELSE (IF keep[k] THEN <<s[k]>> ELSE <<>>) \o SelectSeqIdx(s, keep, k + 1)

----------------------------------------------------------------------------
(* Inputs: the arrays a call can be handed.  A grid has land cells (NaN at  *)
(* every timestep and chemical) and sea cells; at most one sea cell carries *)
(* a flaw: a single NaN or a single negative value.  Every other entry is a *)
(* number depending on its position, so no two entries are equal            *)

Shapes == { s \in (1 .. MaxCells) \X (1 .. MaxCells) : s[1] * s[2] <= MaxCells }

PosVal(t, i, j, c) == 1 + c + NChem * (j + MaxCells * (i + MaxCells * t))

\* flaw: None, or Some([cell, t, c, kind]) with kind "nan" or "neg"
Entry(land, flaw, t, i, j, c) ==
    IF <<i, j>> \in land THEN NaN
    ELSE IF flaw # None /\ flaw[1].cell = <<i, j>> /\ flaw[1].t = t /\ flaw[1].c = c
         THEN (IF flaw[1].kind = "nan" THEN NaN ELSE Num(-PosVal(t, i, j, c)))
         ELSE Num(PosVal(t, i, j, c))

MakeMatrix(T, I, J, C, land, flaw) ==
    [shape |-> <<T, I, J, C>>,
     at |-> [x \in Idx4(T, I, J, C) |-> Entry(land, flaw, x[1], x[2], x[3], x[4])]]

Flaws(T, I, J, C, land, kinds) ==
    {None} \cup
    { Some([cell |-> cell, t |-> t, c |-> c, kind |-> k]) :
        cell \in Idx2(I, J) \ land, t \in Range(T), c \in Range(C), k \in kinds }

Matrices(T, C, kinds) ==
    UNION { UNION { { MakeMatrix(T, s[1], s[2], C, land, flaw) :
                        flaw \in Flaws(T, s[1], s[2], C, land, kinds) } :
                    land \in SUBSET Idx2(s[1], s[2]) } :
            s \in Shapes }

\* matrix[t, :, :, :]
TimeSlice(m, t) ==
    [shape |-> <<m.shape[2], m.shape[3], m.shape[4]>>,
     at |-> [x \in Idx3(m.shape[2], m.shape[3], m.shape[4]) |->
                m.at[<<t, x[1], x[2], x[3]>>]]]

\* matrix[:, :, :, c]
ChemSlice(m, c) ==
    [shape |-> <<m.shape[1], m.shape[2], m.shape[3]>>,
     at |-> [x \in Idx3(m.shape[1], m.shape[2], m.shape[3]) |->
                m.at[<<x[1], x[2], x[3], c>>]]]

\* data[i, j, :].tolist() of a 3-D (lat, lon, chemical) array
ChemVector(d, i, j) == [k \in 1 .. d.shape[3] |-> d.at[<<i, j, k - 1>>]]

\* data[:, i, j].tolist() of a 3-D (time, lat, lon) array
TimeSeries(d, i, j) == [k \in 1 .. d.shape[1] |-> d.at[<<k - 1, i, j>>]]

\* (~np.isnan(v)).all()
NoNaN(v) == \A k \in 1 .. Len(v) : ~isnan(v[k])

----------------------------------------------------------------------------
(* The clustering backend and the dispatcher *)

Modes == {"kmeans", "dbscan", "hierarchical", "spectral"}

\* the estimator with every parameter forwarded to every backend
BackendForwardAll(mode, k, eps, metric) ==
    [kind |-> mode, n_clusters |-> Some(k), eps |-> Some(eps), metric |-> Some(metric)]

\* the estimator object a branch of clustering constructs: a field is None
\* when the branch does not forward the parameter
Backend(mode, k, eps, metric) ==
    IF mode = "dbscan"
    THEN [kind |-> "dbscan", n_clusters |-> None, eps |-> Some(eps), metric |-> Some(metric)]
    ELSE [kind |-> mode, n_clusters |-> Some(k), eps |-> None, metric |-> None]

\* fit() validates its input and parameters: an empty data, a row without
\* features, a NaN in the data, or KMeans without n_clusters raise
FitRaises(mode, k, rows) ==
    \/ rows = <<>>
    \/ \E r \in 1 .. Len(rows) : rows[r] = <<>> \/ ~NoNaN(rows[r])
    \/ mode = "kmeans" /\ k = None

\* what fit() can leave in labels_: one label per row; DBSCAN marks noise
\* with -1, kmeans and hierarchical use 0 .. n_clusters-1.  No labels when no
\* backend is fit or fit raises
BackendLabels(mode, k, rows) ==
    IF ~(mode \in {"kmeans", "dbscan", "hierarchical"}) \/ FitRaises(mode, k, rows)
    THEN {<<>>}
    ELSE IF mode = "dbscan" THEN [1 .. Len(rows) -> (-1) .. MaxLabel]
    ELSE IF k = None THEN [1 .. Len(rows) -> 0 .. MaxLabel]
    ELSE [1 .. Len(rows) -> Range(k[1])]

\* clustering(data, n_clusters, mode, metric, dbscan_epsilon) with labels_ lab:
\* the fits it performs, what it prints, the clusterer it returns and how it
\* ends.  With no branch taken the final "return clusterer" reads an unbound
\* local
clustering(rows, k, mode, metric, eps, lab) ==
    IF mode \in {"kmeans", "dbscan", "hierarchical"}
    THEN IF FitRaises(mode, k, rows)
         THEN [fits |-> <<[backend |-> Backend(mode, k, eps, metric), data |-> rows]>>,
               printed |-> <<"Starting the Clustering Procedure">>,
               clusterer |-> None, end |-> "ValueError"]
         ELSE [fits |-> <<[backend |-> Backend(mode, k, eps, metric), data |-> rows]>>,
               printed |-> <<"Starting the Clustering Procedure", "Finished Clustering.">>,
               clusterer |-> Some([backend |-> Backend(mode, k, eps, metric),
                                   data |-> rows, labels_ |-> lab]),
               end |-> "returned"]
    ELSE [fits |-> <<>>,
          printed |-> <<"Starting the Clustering Procedure", "Finished Clustering.">>,
          clusterer |-> None, end |-> "UnboundLocalError"]

\* n_clusters after the mode branch of a caller
NClustersAfter(mode, k, lab) ==
    IF mode = "dbscan" THEN Some(MaxSeq(lab) + 1) ELSE k

\* [len(list(compress(straight_data, labels_ == i))) for i in range(n_clusters)]
ClusterSizes(lab, k) ==
    [i \in 1 .. k |-> Cardinality({ r \in 1 .. Len(lab) : lab[r] = i - 1 })]

RECURSIVE Scatter(_, _, _, _)
\* for i in range(len(straight_data)): if labels_[i] >= 0:
\*     labels[coordinates[i][0], coordinates[i][1]] = labels_[i]
Scatter(lbl, coords, lab, i) ==
    IF i > Len(lab) THEN lbl
    ELSE Scatter(IF lab[i] >= 0
                 THEN [lbl EXCEPT !.at[coords[i]] = Num(lab[i])]
                 ELSE lbl,
                 coords, lab, i + 1)

----------------------------------------------------------------------------
(* The calls *)

\* default arguments of the callers (def lines of the clustering functions)
DefaultEps == 3
DefaultMetric == "euclidean"

NoArgs ==
    [fn |-> "", variant |-> "", timestep |-> None, chemical |-> None, location |-> None,
     chemicals |-> <<>>, mode |-> "", n_clusters |-> None, dbscan_eps |-> 0,
     metric |-> "", delta_t |-> 0]

Blank ==
    [outcome |-> "pending", printed |-> <<>>, fits |-> <<>>, straight_data |-> <<>>,
     coordinates |-> <<>>, clustered_data |-> None, n_clusters |-> None,
     cluster_sizes |-> <<>>, labels |-> None, data |-> None, windows |-> <<>>]

\* the state a call leaves behind
Done(a, r) ==
    /\ pc' = "done"
    /\ args' = a
    /\ outcome' = r.outcome
    /\ printed' = r.printed
    /\ fits' = r.fits
    /\ straight_data' = r.straight_data
    /\ coordinates' = r.coordinates
    /\ clustered_data' = r.clustered_data
    /\ n_clusters' = r.n_clusters
    /\ cluster_sizes' = r.cluster_sizes
    /\ labels' = r.labels
    /\ data' = r.data
    /\ windows' = r.windows
    /\ UNCHANGED matrix

\* the if / elif chain on mode of a caller: a mode that is none of the three
\* leaves clustered_data unbound, and the next statement raises
\* UnboundLocalError; an exception of clustering propagates
ClusterAndScatter(d, rows, coords, shape, mode, k, lab) ==
    LET c == clustering(rows, k, mode, DefaultMetric, DefaultEps, lab)
        base == [Blank EXCEPT !.data = Some(d), !.straight_data = rows,
                              !.coordinates = coords, !.fits = c.fits,
                              !.printed = c.printed]
    IN  IF ~(mode \in {"kmeans", "dbscan", "hierarchical"})
        THEN [base EXCEPT !.outcome = "UnboundLocalError", !.fits = <<>>,
                          !.printed = <<>>, !.n_clusters = k]
        ELSE IF c.end # "returned"
        THEN [base EXCEPT !.outcome = c.end]
        ELSE LET n == NClustersAfter(mode, k, lab)
             IN  IF n = None
                 THEN [base EXCEPT !.outcome = "TypeError", !.clustered_data = c.clusterer]
                 ELSE
                 [base EXCEPT
                    !.outcome = "returned",
                    !.clustered_data = c.clusterer,
                    !.n_clusters = n,
                    !.cluster_sizes = ClusterSizes(lab, n[1]),
                    !.printed = c.printed \o <<"The cluster sizes are:">>,
                    !.labels = Some(Scatter(FullNaN2(shape[1], shape[2]),
                                            coords, lab, 1))]

\* the test of the straightening loops: (~np.isnan(v)).all() in
\* src/clustering.py, min(v) >= 0 with Python's builtin min in
\* src/Andrea/clustering.py
Keep(variant, v) == IF variant = "Andrea" THEN GeZero(PyMin(v)) ELSE NoNaN(v)

\* the cells of a (lat, lon, chemical) slice kept by the straightening loop of
\* timestep_clustering, in loop order
TimestepKept(variant, d) ==
    LET cells == CellSeq(d.shape[1], d.shape[2])
    IN  SelectSeqIdx(cells,
                     [k \in 1 .. Len(cells) |->
                        Keep(variant, ChemVector(d, cells[k][1], cells[k][2]))],
                     1)

\* the rows with the first one dropped, as straight_data[1:] would leave them
TimestepRowsSliced(d, coords) ==
    DropFirst([k \in 1 .. Len(coords) |-> ChemVector(d, coords[k][1], coords[k][2])])

TimestepRows(d, coords) == [k \in 1 .. Len(coords) |-> ChemVector(d, coords[k][1], coords[k][2])]

timestep_clustering(variant, timestep, mode, k) ==
    /\ pc = "idle"
    /\ (timestep = None) <=> (Len(matrix.shape) = 3)
    /\ LET a == [NoArgs EXCEPT !.fn = "timestep_clustering", !.variant = variant,
                               !.timestep = timestep,
                               !.mode = mode, !.n_clusters = k,
                               !.dbscan_eps = DefaultEps, !.metric = DefaultMetric]
       IN  IF timestep # None /\ timestep[1] >= matrix.shape[1]
           THEN Done(a, [Blank EXCEPT !.outcome = "none",
                                      !.printed = <<"Timestep not valid!">>])
           ELSE IF timestep # None /\ ~InBounds(timestep[1], matrix.shape[1])
           THEN Done(a, [Blank EXCEPT !.outcome = "IndexError"])
           ELSE LET d == IF timestep = None THEN matrix
                         ELSE TimeSlice(matrix, Norm(timestep[1], matrix.shape[1]))
                IN  \E coords \in {TimestepKept(variant, d)} :
                    \E rows \in {TimestepRows(d, coords)} :
                    \E lab \in BackendLabels(mode, k, rows) :
                        Done(a, ClusterAndScatter(d, rows, coords,
                                                  <<d.shape[1], d.shape[2]>>, mode, k, lab))

\* the cells of a (time, lat, lon) slice kept by the straightening loop of
\* single_chemical_clustering, in loop order: the coordinates list
SingleKept(variant, d) ==
    LET cells == CellSeq(d.shape[2], d.shape[3])
    IN  SelectSeqIdx(cells,
                     [k \in 1 .. Len(cells) |->
                        Keep(variant, TimeSeries(d, cells[k][1], cells[k][2]))],
                     1)

\* straight_data as handed to the backend: one row per kept cell, then
\* straight_data = straight_data[1:]
SingleRows(d, coords) ==
    DropFirst([k \in 1 .. Len(coords) |-> TimeSeries(d, coords[k][1], coords[k][2])])

single_chemical_clustering(variant, chemical, mode, k) ==
    /\ pc = "idle"
    /\ (chemical = None) <=> (Len(matrix.shape) = 3)
    /\ LET a == [NoArgs EXCEPT !.fn = "single_chemical_clustering", !.variant = variant,
                               !.chemical = chemical,
                               !.mode = mode, !.n_clusters = k,
                               !.dbscan_eps = DefaultEps, !.metric = DefaultMetric]
       IN  IF chemical # None /\ chemical[1] >= matrix.shape[4]
           THEN Done(a, [Blank EXCEPT !.outcome = "none",
                                      !.printed = <<"Chemical Index not valid!">>])
           ELSE IF chemical # None /\ ~InBounds(chemical[1], matrix.shape[4])
           THEN Done(a, [Blank EXCEPT !.outcome = "IndexError"])
           ELSE LET d == IF chemical = None THEN matrix
                         ELSE ChemSlice(matrix, Norm(chemical[1], matrix.shape[4]))
                IN  \E coords \in {SingleKept(variant, d)} :
                    \E rows \in {SingleRows(d, coords)} :
                    \E lab \in BackendLabels(mode, k, rows) :
                        Done(a, ClusterAndScatter(d, rows, coords,
                                                  <<d.shape[2], d.shape[3]>>, mode, k, lab))

\* the components of a row of timewise_clustering: one per chemical flagged
\* True, in chemical order
FlaggedChems(chemicals) == SelectSeqIdx([c \in 1 .. Len(chemicals) |-> c - 1], chemicals, 1)

\* np.sum(temp_data[not_nan_indexes]) / n_not_nans over the whole grid, with
\* every cell counted in n_not_nans
GridMeanAllCells(m, t, c) ==
    LET cells == CellSeq(m.shape[2], m.shape[3])
        v(k) == m.at[<<t, cells[k][1], cells[k][2], c>>]
    IN  Div(SumSeq([k \in 1 .. Len(cells) |-> IF isnan(v(k)) THEN 0 ELSE v(k).num]),
            Len(cells))

\* np.sum(temp_data[not_nan_indexes]) / n_not_nans over the grid of timestep t
GridMean(m, t, c) ==
    LET cells == CellSeq(m.shape[2], m.shape[3])
        v(k) == m.at[<<t, cells[k][1], cells[k][2], c>>]
    IN  Div(SumSeq([k \in 1 .. Len(cells) |-> IF isnan(v(k)) THEN 0 ELSE v(k).num]),
            Cardinality({ k \in 1 .. Len(cells) : ~isnan(v(k)) }))

\* straight_data of timewise_clustering: one row per timestep
TimewiseRows(m, location, chemicals) ==
    LET chems == FlaggedChems(chemicals)
    IN  [t \in 1 .. m.shape[1] |->
            [k \in 1 .. Len(chems) |->
                IF location # None
                THEN m.at[<<t - 1, location[1][1], location[1][2], chems[k]>>]
                ELSE GridMean(m, t - 1, chems[k])]]

RECURSIVE Scatter1(_, _, _)
\* for i in range(len(straight_data)): if labels_[i] >= 0: labels[i] = labels_[i]
Scatter1(lbl, lab, i) ==
    IF i > Len(lab) THEN lbl
    ELSE Scatter1(IF lab[i] >= 0 THEN [lbl EXCEPT !.at[<<i - 1>>] = Num(lab[i])] ELSE lbl,
                  lab, i + 1)

timewise_clustering(location, chemicals, mode, k) ==
    /\ pc = "idle"
    /\ Len(matrix.shape) = 4
    /\ Len(chemicals) = matrix.shape[4]
    /\ location # None => location[1] \in Idx2(matrix.shape[2], matrix.shape[3])
    /\ LET a == [NoArgs EXCEPT !.fn = "timewise_clustering", !.variant = "root",
                               !.location = location, !.chemicals = chemicals,
                               !.mode = mode, !.n_clusters = k,
                               !.dbscan_eps = DefaultEps, !.metric = DefaultMetric]
       IN  \E rows \in {TimewiseRows(matrix, location, chemicals)} :
           \E lab \in BackendLabels(mode, k, rows) :
             LET c == clustering(rows, k, mode, DefaultMetric, DefaultEps, lab)
                 base == [Blank EXCEPT !.straight_data = rows, !.fits = c.fits,
                                       !.printed = c.printed]
             IN  IF ~(mode \in {"kmeans", "dbscan", "hierarchical"})
                 THEN Done(a, [base EXCEPT !.outcome = "UnboundLocalError", !.fits = <<>>,
                                           !.printed = <<>>, !.n_clusters = k])
                 ELSE IF c.end # "returned"
                 THEN Done(a, [base EXCEPT !.outcome = c.end])
                 ELSE LET n == NClustersAfter(mode, k, lab)
                      IN  IF n # None
                          THEN Done(a, [base EXCEPT
                                  !.outcome = "returned",
                                  !.clustered_data = c.clusterer,
                                  !.n_clusters = n,
                                  !.cluster_sizes = ClusterSizes(lab, n[1]),
                                  !.labels = Some(Scatter1(FullNaN1(Len(rows)), lab, 1))])
                          ELSE Done(a, [base EXCEPT
                                  !.outcome = "returned",
                                  !.clustered_data = c.clusterer,
                                  !.n_clusters = n,
                                  !.cluster_sizes = <<>>,
                                  !.labels = Some(FullNaN1(0))])

\* a direct call of clustering on a list of rows
clustering_call(rows, k, mode, metric, eps) ==
    /\ pc = "idle"
    /\ LET a == [NoArgs EXCEPT !.fn = "clustering", !.variant = "root", !.mode = mode,
                               !.n_clusters = k, !.dbscan_eps = eps, !.metric = metric]
       IN  \E lab \in BackendLabels(mode, k, rows) :
             LET c == clustering(rows, k, mode, metric, eps, lab)
             IN  Done(a, [Blank EXCEPT !.straight_data = rows, !.fits = c.fits,
                                       !.printed = c.printed, !.outcome = c.end,
                                       !.clustered_data = c.clusterer])

\* the values matrix[t1:t2, i, j, chem], a Python slice
SliceTimes(m, t1, t2, i, j, chem) ==
    [k \in 1 .. (IF t2 > t1 THEN t2 - t1 ELSE 0) |-> m.at[<<t1 + k - 1, i, j, chem>>]]

\* the mean with the NaN values of the window counted in the divisor
WindowMeanAllCounted(w) ==
    IF \A k \in 1 .. Len(w) : isnan(w[k]) THEN NaN
    ELSE Div(SumSeq([k \in 1 .. Len(w) |-> IF isnan(w[k]) THEN 0 ELSE w[k].num]), Len(w))

\* n_not_nans > 0: np.sum(temp_data[not_nan_indexes]) / n_not_nans, else nan
WindowMean(w) ==
    LET n == Cardinality({ k \in 1 .. Len(w) : ~isnan(w[k]) })
    IN  IF n > 0
        THEN Div(SumSeq([k \in 1 .. Len(w) |-> IF isnan(w[k]) THEN 0 ELSE w[k].num]), n)
        ELSE NaN

Min(a, b) == IF a <= b THEN a ELSE b

\* t1 = t*delta_t ; t2 = min((t + 1)*delta_t, matrix.shape[0] - 1)
Window(t, delta_t, T) == << t * delta_t, Min((t + 1) * delta_t, T - 1) >>

average_data(chemicals, delta_t) ==
    /\ pc = "idle"
    /\ Len(matrix.shape) = 4
    /\ Len(chemicals) = matrix.shape[4]
    /\ LET a == [NoArgs EXCEPT !.fn = "average_data", !.variant = "root",
                               !.chemicals = chemicals, !.delta_t = delta_t]
           T == matrix.shape[1]
           chems == FlaggedChems(chemicals)
           time_steps == T \div delta_t
           out == [x \in Idx4(time_steps, matrix.shape[2], matrix.shape[3], Len(chems)) |->
                      LET w == Window(x[1], delta_t, T)
                      IN  WindowMean(SliceTimes(matrix, w[1], w[2], x[2], x[3],
                                                chems[x[4] + 1]))]
       IN  Done(a, [Blank EXCEPT
              !.outcome = "returned",
              !.printed = <<"Starting Averaging Procedure:", "Finished Averaging.">>,
              !.windows = [t \in 1 .. time_steps |-> Window(t - 1, delta_t, T)],
              !.data = Some([shape |-> <<time_steps, matrix.shape[2], matrix.shape[3],
                                         Len(chems)>>,
                             at |-> out])])

\* the inputs of average_data: T timesteps, one (cell, chemical) series with
\* NaN at the timesteps of a set S, every other entry a number
AverageMatrices ==
    UNION { UNION { { [shape |-> <<T, s[1], s[2], NChem>>,
                       at |-> [x \in Idx4(T, s[1], s[2], NChem) |->
                                 IF <<x[2], x[3]>> = f[1] /\ x[4] = f[2] /\ x[1] \in f[3]
                                 THEN NaN
                                 ELSE Num(PosVal(x[1], x[2], x[3], x[4]))]] :
                      f \in Idx2(s[1], s[2]) \X Range(NChem) \X SUBSET Range(T) } :
                    s \in Shapes } :
            T \in 1 .. MaxT }


----------------------------------------------------------------------------
(* Specifications *)

\* the arguments tried
TimestepArgs == {None, Some(-(NT + 1)), Some(-1), Some(0), Some(NT)}
ChemicalArgs == {None, Some(-(NChem + 1)), Some(-1), Some(0), Some(NChem)}
NClustersArgs == {Some(MaxLabel + 1)}
\* no location, the first cell of the grid, the last cell of the grid
LocationArgs == {None, Some(<<0, 0>>), Some(<<matrix.shape[2] - 1, matrix.shape[3] - 1>>)}

InitVars ==
    /\ args = NoArgs
    /\ pc = "idle"
    /\ outcome = Blank.outcome
    /\ printed = Blank.printed
    /\ fits = Blank.fits
    /\ straight_data = Blank.straight_data
    /\ coordinates = Blank.coordinates
    /\ clustered_data = Blank.clustered_data
    /\ n_clusters = Blank.n_clusters
    /\ cluster_sizes = Blank.cluster_sizes
    /\ labels = Blank.labels
    /\ data = Blank.data
    /\ windows = Blank.windows

InitTimestep ==
    /\ matrix \in Matrices(NT, NChem, {"nan"})
                    \cup { TimeSlice(m, 0) : m \in Matrices(NT, NChem, {"nan"}) }
    /\ InitVars

NextTimestep ==
    \E timestep \in TimestepArgs, mode \in Modes, k \in NClustersArgs :
        timestep_clustering("root", timestep, mode, k)

SpecTimestep == InitTimestep /\ [][NextTimestep]_vars

InitSingle ==
    /\ matrix \in Matrices(NT, NChem, {"nan", "neg"})
                    \cup { ChemSlice(m, 0) : m \in Matrices(NT, NChem, {"nan", "neg"}) }
    /\ InitVars

NextSingle ==
    \E chemical \in ChemicalArgs, mode \in Modes, k \in NClustersArgs :
        \/ single_chemical_clustering("root", chemical, mode, k)
        \/ single_chemical_clustering("Andrea", chemical, mode, k)

SpecSingle == InitSingle /\ [][NextSingle]_vars

InitSelect ==
    /\ matrix \in Matrices(NT, NChem, {"nan", "neg"})
    /\ InitVars

NextSelect ==
    \/ \E chemical \in ChemicalArgs \ {None}, mode \in Modes, k \in NClustersArgs :
        \/ single_chemical_clustering("root", chemical, mode, k)
        \/ single_chemical_clustering("Andrea", chemical, mode, k)
    \/ \E timestep \in TimestepArgs \ {None}, mode \in Modes, k \in NClustersArgs :
        \/ timestep_clustering("root", timestep, mode, k)
        \/ timestep_clustering("Andrea", timestep, mode, k)

SpecSelect == InitSelect /\ [][NextSelect]_vars

InitTimewise ==
    /\ matrix \in Matrices(NT, NChem, {})
    /\ InitVars

NextTimewise ==
    \E location \in LocationArgs, chemicals \in [1 .. NChem -> BOOLEAN],
       mode \in Modes, k \in NClustersArgs \cup {None} :
        timewise_clustering(location, chemicals, mode, k)

SpecTimewise == InitTimewise /\ [][NextTimewise]_vars

InitDispatch ==
    /\ matrix \in Matrices(NT, NChem, {"nan"})
    /\ InitVars

\* clustering is handed the NaN-free feature vectors of the first timestep
NextDispatch ==
    /\ Len(matrix.shape) = 4
    /\ \E mode \in Modes, k \in {Some(1), Some(MaxLabel + 1)},
          metric \in {"euclidean", "manhattan"}, eps \in {1, DefaultEps} :
        clustering_call(TimestepRows(TimeSlice(matrix, 0),
                                     TimestepKept("root", TimeSlice(matrix, 0))),
                        k, mode, metric, eps)

SpecDispatch == InitDispatch /\ [][NextDispatch]_vars

InitAverage ==
    /\ matrix \in AverageMatrices
    /\ InitVars

NextAverage ==
    \E chemicals \in [1 .. NChem -> BOOLEAN], delta_t \in 1 .. MaxT :
        average_data(chemicals, delta_t)

SpecAverage == InitAverage /\ [][NextAverage]_vars

InitDbscan ==
    /\ matrix \in Matrices(NT, NChem, {"nan"})
    /\ InitVars

NextDbscan ==
    \/ \E chemical \in {Some(0)}, k \in NClustersArgs :
        single_chemical_clustering("root", chemical, "dbscan", k)
    \/ \E timestep \in {Some(0)}, k \in NClustersArgs :
        timestep_clustering("root", timestep, "dbscan", k)
    \/ \E location \in LocationArgs, k \in NClustersArgs :
        timewise_clustering(location, [c \in 1 .. NChem |-> TRUE], "dbscan", k)

SpecDbscan == InitDbscan /\ [][NextDbscan]_vars

\* every function, on every input above
Init ==
    /\ matrix \in Matrices(NT, NChem, {"nan", "neg"})
                    \cup { TimeSlice(m, 0) : m \in Matrices(NT, NChem, {"nan"}) }
                    \cup { ChemSlice(m, 0) : m \in Matrices(NT, NChem, {"nan", "neg"}) }
                    \cup AverageMatrices
    /\ InitVars

Next ==
    \/ NextSingle
    \/ NextTimestep
    \/ NextTimewise
    \/ NextDispatch
    \/ NextAverage

Spec == Init /\ [][Next]_vars

----------------------------------------------------------------------------
(* Claims *)

Returned(fn) == pc = "done" /\ args.fn = fn /\ outcome = "returned"

\* the slice of the input that the timestep argument selects
SelectedTimestep ==
    IF args.timestep = None THEN matrix
    ELSE TimeSlice(matrix, Norm(args.timestep[1], matrix.shape[1]))

\* C3: in timestep_clustering, a cell of the selected timestep whose chemical
\* values are all non-NaN and whose feature vector the backend labelled >= 0
\* carries that label in the returned labels; a cell with a NaN chemical value
\* is NaN in the returned labels and its vector is no row of the data fit; the
\* returned labels have the lat x lon shape of the input
C3_TimestepLabels ==
    Returned("timestep_clustering") =>
        LET d == SelectedTimestep
            rows == fits[1].data
            lab == clustered_data[1].labels_
        IN  /\ Len(fits) = 1
            /\ Len(lab) = Len(rows)
            /\ labels[1].shape = <<d.shape[1], d.shape[2]>>
            /\ DOMAIN labels[1].at = Idx2(d.shape[1], d.shape[2])
            /\ \A cell \in Idx2(d.shape[1], d.shape[2]) :
                 LET v == ChemVector(d, cell[1], cell[2])
                 IN  IF NoNaN(v)
                     THEN \A r \in 1 .. Len(rows) :
                            (rows[r] = v /\ lab[r] >= 0) => labels[1].at[cell] = Num(lab[r])
                     ELSE /\ labels[1].at[cell] = NaN
                          /\ \A r \in 1 .. Len(rows) : rows[r] # v

\* a call on a selected timestep with two labelled cells carrying different
\* labels and a cell left out for a single NaN chemical value
C3_Witness ==
    /\ Returned("timestep_clustering")
    /\ args.timestep # None
    /\ \E c1, c2, c3 \in DOMAIN labels[1].at :
         /\ ~isnan(labels[1].at[c1]) /\ ~isnan(labels[1].at[c2])
         /\ labels[1].at[c1] # labels[1].at[c2]
         /\ ~NoNaN(ChemVector(SelectedTimestep, c3[1], c3[2]))
         /\ \E k \in 1 .. NChem : ~isnan(ChemVector(SelectedTimestep, c3[1], c3[2])[k])

\* the slice of the input that the chemical argument selects
SelectedChemical ==
    IF args.chemical = None THEN matrix
    ELSE ChemSlice(matrix, Norm(args.chemical[1], matrix.shape[4]))

\* C1: in single_chemical_clustering (both variants) the k-th row handed to
\* the backend is the time series of the cell at the k-th entry of coordinates,
\* and every non-NaN entry of the returned labels is the label the backend
\* gave the time series of that same cell
C1_LabelOfSameCell ==
    Returned("single_chemical_clustering") =>
        LET d == SelectedChemical
            rows == fits[1].data
            lab == clustered_data[1].labels_
        IN  /\ \A k \in 1 .. Len(rows) :
                 rows[k] = TimeSeries(d, coordinates[k][1], coordinates[k][2])
            /\ \A cell \in DOMAIN labels[1].at :
                 ~isnan(labels[1].at[cell]) =>
                    \E r \in 1 .. Len(rows) :
                        /\ rows[r] = TimeSeries(d, cell[1], cell[2])
                        /\ labels[1].at[cell] = Num(lab[r])

\* C2: in single_chemical_clustering with mode kmeans or hierarchical a cell
\* has a non-NaN entry in the returned labels if and only if its time series
\* holds no NaN
C2_LabelledIffNaNFree ==
    ( /\ Returned("single_chemical_clustering")
      /\ args.variant = "root"
      /\ args.mode \in {"kmeans", "hierarchical"} ) =>
        \A cell \in DOMAIN labels[1].at :
            ~isnan(labels[1].at[cell])
                <=> NoNaN(TimeSeries(SelectedChemical, cell[1], cell[2]))

\* C6: a selector that is no valid index of its axis prints the 'not valid'
\* message, returns None and fits no backend; a valid one goes on to the
\* clustering of exactly that chemical / timestep
C6_SelectorChecked ==
    /\ ( /\ pc = "done" /\ args.fn = "single_chemical_clustering"
         /\ args.chemical # None ) =>
            IF InBounds(args.chemical[1], matrix.shape[4])
            THEN /\ outcome \notin {"none", "IndexError"}
                 /\ data = Some(ChemSlice(matrix, Norm(args.chemical[1], matrix.shape[4])))
            ELSE /\ outcome = "none"
                 /\ printed = <<"Chemical Index not valid!">>
                 /\ fits = <<>>
    /\ ( /\ pc = "done" /\ args.fn = "timestep_clustering"
         /\ args.timestep # None ) =>
            IF InBounds(args.timestep[1], matrix.shape[1])
            THEN /\ outcome \notin {"none", "IndexError"}
                 /\ data = Some(TimeSlice(matrix, Norm(args.timestep[1], matrix.shape[1])))
            ELSE /\ outcome = "none"
                 /\ printed = <<"Timestep not valid!">>
                 /\ fits = <<>>

RECURSIVE SumOver(_, _)
\* the sum of f[x] over the x of a finite set S
SumOver(f, S) ==
    IF S = {} THEN 0
    ELSE LET x == CHOOSE y \in S : TRUE IN f[x] + SumOver(f, S \ {x})

\* x is the mean of the numbers vals[k], k in S (S not empty)
IsMeanOf(x, vals, S) ==
    /\ ~isnan(x)
    /\ x.den > 0
    /\ x.num * Cardinality(S) = x.den * SumOver([k \in S |-> vals[k].num], S)

\* the place, in a row or in the output channels, of chemical c among the
\* chemicals flagged True
Rank(chemicals, c) == Cardinality({ c2 \in 0 .. c : chemicals[c2 + 1] })
NFlagged(chemicals) == Cardinality({ c \in 1 .. Len(chemicals) : chemicals[c] })

\* C4: average_data averages over full periods: with 1 <= delta_t <= T, output
\* timestep t is made of exactly the input timesteps t*delta_t ..
\* (t+1)*delta_t - 1, for each of the floor(T / delta_t) output timesteps
C4_FullPeriods ==
    ( /\ Returned("average_data")
      /\ 1 <= args.delta_t /\ args.delta_t <= matrix.shape[1] ) =>
        /\ Len(windows) = matrix.shape[1] \div args.delta_t
        /\ \A t \in 1 .. Len(windows) :
              windows[t][1] .. (windows[t][2] - 1)
                = ((t - 1) * args.delta_t) .. (t * args.delta_t - 1)

\* C5: the output of average_data has one channel per chemical flagged True,
\* in chemical order; a value is NaN if and only if every input value of its
\* window is NaN, and otherwise it is the mean of the non-NaN values alone
C5_NaNAwareMean ==
    Returned("average_data") =>
        LET out == data[1]
            T == matrix.shape[1]
        IN  /\ out.shape = <<Len(windows), matrix.shape[2], matrix.shape[3],
                             NFlagged(args.chemicals)>>
            /\ DOMAIN out.at = Idx4(out.shape[1], out.shape[2], out.shape[3], out.shape[4])
            /\ \A t \in Range(out.shape[1]), cell \in Idx2(out.shape[2], out.shape[3]),
                  c \in Range(matrix.shape[4]) :
                 args.chemicals[c + 1] =>
                    LET W == windows[t + 1][1] .. (windows[t + 1][2] - 1)
                        vals == [k \in W |-> matrix.at[<<k, cell[1], cell[2], c>>]]
                        good == { k \in W : ~isnan(vals[k]) }
                        x == out.at[<<t, cell[1], cell[2], Rank(args.chemicals, c) - 1>>]
                    IN  IF good = {} THEN isnan(x) ELSE IsMeanOf(x, vals, good)

\* a call that skips the first chemical and yields both a NaN output for a
\* non-empty all-NaN window and a number for a window holding a NaN
C5_Witness ==
    /\ Returned("average_data")
    /\ ~args.chemicals[1] /\ args.chemicals[NChem]
    /\ \E x \in DOMAIN data[1].at :
         /\ isnan(data[1].at[x])
         /\ windows[x[1] + 1][2] > windows[x[1] + 1][1]
    /\ \E x \in DOMAIN data[1].at, k \in Range(matrix.shape[1]) :
         /\ ~isnan(data[1].at[x])
         /\ k >= windows[x[1] + 1][1] /\ k < windows[x[1] + 1][2]
         /\ isnan(matrix.at[<<k, x[2], x[3], NChem - 1>>])
         /\ x[4] = NFlagged(args.chemicals) - 1

\* C7: clustering fits exactly one backend of the kind its mode names, on the
\* data given, forwards n_clusters to kmeans and hierarchical only and
\* dbscan_epsilon and metric to dbscan only, and returns that backend; for any
\* other mode it fits nothing and ends in an error
C7_Dispatch ==
    (pc = "done" /\ args.fn = "clustering") =>
        IF args.mode \in {"kmeans", "dbscan", "hierarchical"}
        THEN /\ Len(fits) = 1
             /\ fits[1].data = straight_data
             /\ fits[1].backend.kind = args.mode
             /\ IF args.mode = "dbscan"
                THEN /\ fits[1].backend.n_clusters = None
                     /\ fits[1].backend.eps = Some(args.dbscan_eps)
                     /\ fits[1].backend.metric = Some(args.metric)
                ELSE /\ fits[1].backend.n_clusters = Some(args.n_clusters)
                     /\ fits[1].backend.eps = None
                     /\ fits[1].backend.metric = None
             /\ outcome \in {"returned", "ValueError"}
             /\ outcome = "returned" =>
                    /\ clustered_data # None
                    /\ clustered_data[1].backend = fits[1].backend
                    /\ clustered_data[1].data = straight_data
        ELSE /\ fits = <<>>
             /\ clustered_data = None
             /\ outcome \notin {"returned", "none", "pending"}

\* a dbscan call with non-default epsilon and metric that returns its backend
C7_Witness ==
    /\ pc = "done" /\ args.fn = "clustering" /\ args.mode = "dbscan"
    /\ outcome = "returned"
    /\ args.dbscan_eps # DefaultEps /\ args.metric # DefaultMetric
    /\ Len(straight_data) >= 2

\* the entries of the returned labels that belong to row r of the data fit:
\* the cells whose own time series / feature vector is that row, or entry r
\* of the labels vector of timewise_clustering
EntriesOfRow(r) ==
    IF args.fn = "timewise_clustering" THEN { <<r - 1>> }
    ELSE IF args.fn = "timestep_clustering"
    THEN { cell \in DOMAIN labels[1].at :
             ChemVector(SelectedTimestep, cell[1], cell[2]) = fits[1].data[r] }
    ELSE { cell \in DOMAIN labels[1].at :
             TimeSeries(SelectedChemical, cell[1], cell[2]) = fits[1].data[r] }

\* C8: in mode dbscan n_clusters becomes max(label) + 1, a sample labelled -1
\* stays NaN in the returned labels and is counted in no cluster size, every
\* non-NaN returned label lies in 0 .. n_clusters-1, and with noise only
\* cluster_sizes is empty and every label NaN
C8_DbscanNoise ==
    ( /\ pc = "done" /\ outcome = "returned" /\ args.mode = "dbscan"
      /\ args.fn \in {"single_chemical_clustering", "timestep_clustering",
                      "timewise_clustering"} ) =>
        LET lab == clustered_data[1].labels_
            n == MaxSeq(lab) + 1
        IN  /\ n_clusters = Some(n)
            /\ Len(cluster_sizes) = n
            /\ \A i \in 1 .. n :
                 cluster_sizes[i] = Cardinality({ r \in 1 .. Len(lab) : lab[r] = i - 1 })
            /\ \A r \in 1 .. Len(lab) :
                 lab[r] = -1 => \A e \in EntriesOfRow(r) : isnan(labels[1].at[e])
            /\ \A e \in DOMAIN labels[1].at :
                 ~isnan(labels[1].at[e]) =>
                    \E v \in 0 .. (n - 1) : labels[1].at[e] = Num(v)
            /\ (\A r \in 1 .. Len(lab) : lab[r] = -1) =>
                 /\ cluster_sizes = <<>>
                 /\ \A e \in DOMAIN labels[1].at : isnan(labels[1].at[e])

\* the rows timewise_clustering hands to the backend: one per timestep, in
\* time order, one component per flagged chemical
C9_RowsPerTimestep ==
    /\ Len(fits) = 1
    /\ fits[1].data = straight_data
    /\ Len(straight_data) = matrix.shape[1]
    /\ \A t \in Range(matrix.shape[1]) :
         /\ Len(straight_data[t + 1]) = NFlagged(args.chemicals)
         /\ \A c \in Range(matrix.shape[4]) :
              args.chemicals[c + 1] =>
                LET x == straight_data[t + 1][Rank(args.chemicals, c)]
                    cells == Idx2(matrix.shape[2], matrix.shape[3])
                    vals == [cell \in cells |-> matrix.at[<<t, cell[1], cell[2], c>>]]
                    good == { cell \in cells : ~isnan(vals[cell]) }
                IN  IF args.location # None
                    THEN x = matrix.at[<<t, args.location[1][1], args.location[1][2], c>>]
                    ELSE IF good = {} THEN isnan(x) ELSE IsMeanOf(x, vals, good)

\* C9 as stated: the returned labels vector has length matrix.shape[0] and
\* labels[t] is the backend's label for timestep t
C9_AsStated ==
    Returned("timewise_clustering") =>
        /\ C9_RowsPerTimestep
        /\ labels[1].shape = <<matrix.shape[1]>>
        /\ \A t \in Range(matrix.shape[1]) :
             labels[1].at[<<t>>] = Num(clustered_data[1].labels_[t + 1])

\* C9 amended: with n_clusters not None (after the dbscan replacement) the
\* labels vector has length matrix.shape[0], labels[t] being the backend's
\* label for timestep t when it is >= 0 and NaN when it is -1; with
\* n_clusters None the returned labels are the empty list
C9_Timewise ==
    Returned("timewise_clustering") =>
        /\ C9_RowsPerTimestep
        /\ IF n_clusters # None
           THEN /\ labels[1].shape = <<matrix.shape[1]>>
                /\ \A t \in Range(matrix.shape[1]) :
                     LET l == clustered_data[1].labels_[t + 1]
                     IN  labels[1].at[<<t>>] = IF l >= 0 THEN Num(l) ELSE NaN
           ELSE labels[1].shape = <<0>>

\* a call on the grid means that skips the first chemical, on a grid with a
\* land cell beside a sea cell, whose timesteps get different labels
C9_Witness ==
    /\ Returned("timewise_clustering")
    /\ args.location = None
    /\ ~args.chemicals[1] /\ args.chemicals[NChem]
    /\ n_clusters # None
    /\ \E c1, c2 \in Idx2(matrix.shape[2], matrix.shape[3]) :
         isnan(matrix.at[<<0, c1[1], c1[2], NChem - 1>>])
            /\ ~isnan(matrix.at[<<0, c2[1], c2[2], NChem - 1>>])
    /\ labels[1].at[<<0>>] # labels[1].at[<<matrix.shape[1] - 1>>]

====
